---- MODULE Spec2Model ----
(***************************************************************************)
(* The multi-process extraction/injection pipeline of                      *)
(* Community-Supported/git-to-hyper/advanced-git-to-hyper.py:              *)
(*   main            - the Coordinator                                     *)
(*   extraction_func - the Extraction Workers (one process per worker)     *)
(*   injection_func  - the Injection Writer (one process)                  *)
(* The Manager queues and the Manager value are shared, every call on one  *)
(* of them (put, get, qsize, set) is one atomic step of the caller.        *)
(***************************************************************************)
EXTENDS Integers, Sequences, FiniteSets, TLC

\* ------------------------------------------------------------------ bounds
MaxRevisions == 3
MaxWorkers == 2
\* the largest (number of commits + number of workers) of a run that is explored
MaxLoad == 4

\* the largest cpu_count() of a machine that is explored
MaxCpus == 9

\* the worker counts of the two runs property P5 compares
ComparedWorkerCounts == {1, 4}

\* ------------------------------------------------- the repository (input)
\* the files the history touches, in the order the tree is walked
FileList == <<"a.py", "b.py">>
AuthorList == <<"x@mail", "y@mail">>

\* commit.hexsha of the commit at position i of repo.iter_commits(branch)
Sha(i) == <<"sha", i>>

\* commit.author.email, as git blame reports it for the lines the commit added
Author(i) == AuthorList[((i \div 2) % Len(AuthorList)) + 1]

\* whether commit i changes file f (commit.stats.files)
Touches(i, f) == IF f = FileList[1] THEN i % 2 = 0 ELSE i % 2 = 1

VARIABLES
    nrev,                \* number of commits on the branch
    workers_arg,         \* --number_of_workers: <<>> when not given, else <<n>>
    cpus,                \* cpu_count()
    number_of_workers,   \* number_of_workers as main resolves it
    blame_only_for_head, \* --blame_only_for_head
    file_size_limit,     \* --file_size_limit
    mainpc,              \* position of main
    spawned,             \* extraction processes started so far
    joined,              \* extraction processes joined so far
    extraction_backlog,  \* manager.Queue of commit indices
    inject_queues,       \* one manager.Queue per table
    extraction_done,     \* manager.Value(bool)
    wpc,                 \* position of each extraction process
    commit_idx,          \* the index each extraction process holds: <<>> before the first get, then <<i>>
    todo,                \* the puts an extraction process still has to do for its commit
    workspace,           \* the working tree in path_to_repo and in each worker's temp_dir
    ipc,                 \* position of the injection process
    itable,              \* position of the injection process in its loop over the tables
    qsum,                \* the sum of qsize() values read so far
    hyper,               \* the rows of each table of git.hyper
    tables,              \* the tables created in git.hyper
    connections,         \* the processes holding an open connection to git.hyper
    sink_ops,            \* history: who created a table or inserted a row
    delivered,           \* history: how often each index was returned by backlog.get()
    pushed,              \* history: every row put on each injection queue, in order
    emitted,             \* history: the puts made while analysing each commit index, in order
    observed_done,       \* history: the injection process has read extraction_done as True
    empty_after_done     \* history: a full all-empty size pass was made after that

vars == <<nrev, workers_arg, cpus, number_of_workers, blame_only_for_head, file_size_limit, mainpc,
          spawned, joined, extraction_backlog, inject_queues, extraction_done,
          wpc, commit_idx, todo, workspace, ipc, itable, qsum, hyper, tables, connections,
          sink_ops, delivered, pushed, emitted, observed_done, empty_after_done>>

config == <<nrev, workers_arg, cpus, number_of_workers, blame_only_for_head, file_size_limit>>
mainVars == <<mainpc, spawned, joined>>
workerVars == <<wpc, commit_idx, todo>>
writerVars == <<ipc, itable, qsum>>
sinkVars == <<hyper, tables, connections, sink_ops>>
writerHist == <<observed_done, empty_after_done>>

\* the process slots: enough for every worker count a run is started with
Workers ==
    {w \in 1..(MaxWorkers + MaxCpus + 4) :
        w <= MaxWorkers \/ 3 * w <= MaxCpus \/ \E k \in ComparedWorkerCounts : w <= k}
\* process identities
Injection == <<"injection_proc", 0>>
Extraction(w) == <<"extract_proc", w>>

\* class Tables, in the insertion order of the inject_queues dict
TableOrder == <<"COMMITS", "CHANGED_FILES", "FILE_COMMIT_MAPPING", "BLAME">>
TableNames == {TableOrder[k] : k \in 1..Len(TableOrder)}

\* ------------------------------------------------------- derived records
RECURSIVE Flatten(_)
Flatten(ss) == IF ss = <<>> THEN <<>> ELSE Head(ss) \o Flatten(Tail(ss))

Put(t, row) == [table |-> t, row |-> row]

Range(seq) == {seq[k] : k \in 1..Len(seq)}

\* list(commit.stats.files.keys())
ChangedFiles(i) == SelectSeq(FileList, LAMBDA f : Touches(i, f))

\* the commits of the history that made the content file f has at commit i
\* (index 0 is HEAD, larger indices are older)
Contributors(i, f) == {j \in i..(nrev - 1) : Touches(j, f)}

\* Path(repo_dir).rglob("*") after reset_repo_to_commit: the files present at commit i
AllFiles(i) == SelectSeq(FileList, LAMBDA f : Contributors(i, f) # {})

\* sha256 of the content of file f at commit i: the content is that of the
\* newest commit at or before i that changed f
FileHash(i, f) == <<"sha256", f, CHOOSE j \in Contributors(i, f) : \A k \in Contributors(i, f) : j <= k>>

\* os.path.getsize: every contributing commit added one line
FileSize(i, f) == Cardinality(Contributors(i, f))

\* the author-mail lines of git blame --line-porcelain for file f at commit i
AuthorsPerLine(i, f) == {Author(j) : j \in Contributors(i, f)}
AuthorCount(i, f, a) == Cardinality({j \in Contributors(i, f) : Author(j) = a})

\* --file_size_limit is None (written <<>>) or a number of bytes (written <<n>>);
\* "file_size_limit and ..." takes None and 0 as false
Truthy(limit) == limit # <<>> /\ limit[1] # 0

\* commit.message, a string written as the sequence of its characters: the
\* messages of the odd commits hold an apostrophe
Message(i) == IF i % 2 = 1 THEN <<"d", "o", "n", "'", "t">> ELSE <<"f", "i", "x">>

\* str.replace('\'', '\'\''): every apostrophe is written twice
Replace(str) ==
    Flatten([k \in 1..Len(str) |-> IF str[k] = "'" THEN <<"'", "'">> ELSE <<str[k]>>])

\* mutant: the commits row is put twice
insert_commit_data_twice(i) ==
    <<Put("COMMITS", <<Sha(i), ChangedFiles(i), Replace(Message(i))>>),
      Put("COMMITS", <<Sha(i), ChangedFiles(i), Replace(Message(i))>>)>>

\* the row of the commits table, of which the identifier, the changed-file list
\* and the message are kept
insert_commit_data(i) ==
    LET commit_message == Replace(Message(i))
    IN  <<Put("COMMITS", <<Sha(i), ChangedFiles(i), commit_message>>)>>

\* basic-git-to-hyper.py: the row insert_commit_data adds to the commits table
\* and the rows insert_changed_files_data adds to changed_files
basic_insert_commit_data(i) == <<Sha(i), ChangedFiles(i), Message(i)>>
basic_insert_changed_files_data(i) == {<<Sha(i), ChangedFiles(i)[k]>> : k \in 1..Len(ChangedFiles(i))}

insert_changed_files_data(changed_files, sha) ==
    [k \in 1..Len(changed_files) |-> Put("CHANGED_FILES", <<sha, changed_files[k]>>)]

run_git_blame(i, f) ==
    LET authors == SelectSeq(AuthorList, LAMBDA a : a \in AuthorsPerLine(i, f))
    IN  [k \in 1..Len(authors) |->
            Put("BLAME", <<FileHash(i, f), authors[k], AuthorCount(i, f, authors[k])>>)]

\* ------------------------------------------------------- working trees
\* the files a working tree may hold that git does not track
UntrackedList == <<"junk.tmp">>

\* the state of a directory: not there, or a working tree checked out at the
\* commit of index head with a set of untracked files in it
NoDir == [made |-> FALSE, head |-> 0, untracked |-> {}]
Tree(j, u) == [made |-> TRUE, head |-> j, untracked |-> u]

\* path_to_repo, and the directory tempfile.TemporaryDirectory makes for
\* extraction process w (a fresh name for every call)
Origin == <<"path_to_repo", 0>>
TempDir(w) == <<"temp_dir", w>>
Dirs == {Origin} \cup {TempDir(w) : w \in Workers}

\* mutant: the extraction process opens the repository in path_to_repo
repo_dir_shared(w) == Origin

\* repo = Repo(temp_dir): the repository an extraction process works in
repo_dir(w) == TempDir(w)

\* mutant: the untracked files are left in the working tree
reset_repo_to_commit_no_clean(tree, i) == Tree(i, tree.untracked)

\* repo.head.reference = commit; repo.head.reset(index=True, working_tree=True);
\* repo.git.clean('-xfd')
reset_repo_to_commit(tree, i) == Tree(i, {})

\* Path(repo_dir).rglob("*") without .git: the tracked files of the commit that
\* is checked out and the untracked files
TreeFiles(tree) ==
    AllFiles(tree.head) \o SelectSeq(UntrackedList, LAMBDA f : f \in tree.untracked)

\* sha256 of the file as it is in the working tree
TreeHash(tree, f) ==
    IF f \in tree.untracked THEN <<"sha256", f, -1>> ELSE FileHash(tree.head, f)

\* os.path.getsize(file)
TreeSize(tree, f) == IF f \in tree.untracked THEN 1 ELSE FileSize(tree.head, f)

\* git blame run in the working tree: for a file that is not in HEAD it fails
\* and its output holds no author-mail line
TreeBlame(tree, f) == IF f \in tree.untracked THEN <<>> ELSE run_git_blame(tree.head, f)

\* mutant: git blame is run for every file under the limit, changed or not
blame_one_file_unconditional(i, bofh, limit, tree, f) ==
    <<Put("FILE_COMMIT_MAPPING", <<Sha(i), TreeHash(tree, f), f>>)>>
    \o (IF Truthy(limit) /\ limit[1] > TreeSize(tree, f)
        THEN TreeBlame(tree, f)
        ELSE <<>>)

blame_one_file(i, bofh, limit, tree, f) ==
    <<Put("FILE_COMMIT_MAPPING", <<Sha(i), TreeHash(tree, f), f>>)>>
    \o (IF f \in Range(ChangedFiles(i)) \/ i = 0
        THEN IF Truthy(limit) /\ limit[1] > TreeSize(tree, f)
             THEN TreeBlame(tree, f)
             ELSE <<>>
        ELSE <<>>)

\* mutant: with --blame_only_for_head the commits other than HEAD have their
\* changed files hashed and blamed
insert_git_blame_data_changed_files(i, bofh, limit, tree) ==
    LET files == IF i = 0 \/ ~bofh THEN TreeFiles(tree) ELSE ChangedFiles(i)
    IN  Flatten([k \in 1..Len(files) |-> blame_one_file(i, bofh, limit, tree, files[k])])

insert_git_blame_data(i, bofh, limit, tree) ==
    IF i = 0 \/ ~bofh
    THEN LET all_files == TreeFiles(tree)
         IN  Flatten([k \in 1..Len(all_files) |-> blame_one_file(i, bofh, limit, tree, all_files[k])])
    ELSE <<>>

\* the puts of one iteration of the loop of extraction_func, in program order,
\* with the working tree as reset_repo_to_commit left it
analyze_commit(i, bofh, limit, tree) ==
    insert_commit_data(i)
    \o insert_changed_files_data(ChangedFiles(i), Sha(i))
    \o insert_git_blame_data(i, bofh, limit, tree)

\* ----------------------------------------------------------------- Init
DefaultFileSizeLimit == 10 * 1024 * 1024

\* mutant: a third of the cpus, without the lower bound of 1
ResolveWorkersNoFloor(arg, n_cpus) ==
    IF arg # <<>> THEN arg[1] ELSE n_cpus \div 3

\* number_of_workers = int(number_of_workers) if number_of_workers
\*                     else max([1, int(cpu_count() / 3)])
ResolveWorkers(arg, n_cpus) ==
    IF arg # <<>> THEN arg[1]
    ELSE IF n_cpus \div 3 > 1 THEN n_cpus \div 3 ELSE 1

\* the state when main is entered: a branch of n commits and the command line
StartWith(n, arg, n_cpus, bofh, limit, untracked) ==
    /\ nrev = n
    /\ workers_arg = arg
    /\ cpus = n_cpus
    /\ number_of_workers = ResolveWorkers(arg, n_cpus)
    /\ blame_only_for_head = bofh
    /\ file_size_limit = limit
    /\ mainpc = "seed"
    /\ spawned = 0
    /\ joined = 0
    /\ extraction_backlog = <<>>
    /\ inject_queues = [t \in TableNames |-> <<>>]
    /\ extraction_done = FALSE
    /\ wpc = [w \in Workers |-> "unstarted"]
    /\ commit_idx = [w \in Workers |-> <<>>]
    /\ todo = [w \in Workers |-> <<>>]
    /\ workspace = [d \in Dirs |-> IF d = Origin THEN Tree(0, untracked) ELSE NoDir]
    /\ ipc = "unstarted"
    /\ itable = 1
    /\ qsum = 0
    /\ hyper = [t \in TableNames |-> <<>>]
    /\ tables = {}
    /\ connections = {}
    /\ sink_ops = {}
    /\ delivered = [i \in 0..(MaxRevisions - 1) |-> 0]
    /\ pushed = [t \in TableNames |-> <<>>]
    /\ emitted = [i \in 0..(MaxRevisions - 1) |-> <<>>]
    /\ observed_done = FALSE
    /\ empty_after_done = FALSE

\* a branch of n commits, --number_of_workers k --blame_only_for_head, the
\* default file size limit
Start(n, k) == StartWith(n, <<k>>, 1, TRUE, <<DefaultFileSizeLimit>>, {})

Init ==
    \E n \in 1..MaxRevisions, k \in 1..MaxWorkers : n + k <= MaxLoad /\ Start(n, k)

\* the runs whose infinite behaviours are examined
InitFair ==
    \E n \in 1..MaxRevisions, k \in 1..MaxWorkers : n * k <= MaxLoad /\ Start(n, k)

\* the runs with at least two workers whose infinite behaviours are examined
InitStall ==
    \E n \in 1..MaxRevisions, k \in 2..MaxWorkers : n * k <= MaxLoad /\ Start(n, k)

\* the values of --file_size_limit that are explored: None, and byte counts
\* around the sizes of the files of the branch
FileSizeLimits == {<<>>, <<0>>, <<1>>, <<2>>, <<DefaultFileSizeLimit>>}

\* one worker, every setting of --blame_only_for_head and --file_size_limit
InitBlame ==
    \E n \in 1..MaxRevisions, bofh \in BOOLEAN, limit \in FileSizeLimits :
        StartWith(n, <<1>>, 1, bofh, limit, {})

\* one commit; --number_of_workers given (the command line hands it over as a
\* string, "0" included, which int() converts) or left out, on machines of
\* 1 to MaxCpus cpus
InitWorkers ==
    \E arg \in {<<>>} \cup {<<v>> : v \in 0..MaxWorkers}, n_cpus \in 1..MaxCpus :
        StartWith(1, arg, n_cpus, TRUE, <<DefaultFileSizeLimit>>, {})

\* path_to_repo with or without untracked files in its working tree; the runs
\* with one worker with and without --blame_only_for_head, the runs with
\* several workers with it
InitWorkspace ==
    \E n \in 1..MaxRevisions, k \in 1..MaxWorkers, bofh \in BOOLEAN,
       u \in SUBSET Range(UntrackedList) :
        /\ n * k <= MaxLoad
        /\ bofh \/ k = 1
        /\ StartWith(n, <<k>>, 1, bofh, <<DefaultFileSizeLimit>>, u)

\* one commit, analysed once by 1 worker and once by 4
InitP5 == \E k \in ComparedWorkerCounts : Start(1, k)

\* ----------------------------------------------------------------- main
\* mutant: the last commit of the branch is not put on the backlog
MainSeedShort ==
    /\ mainpc = "seed"
    /\ IF Len(extraction_backlog) < nrev - 1
       THEN /\ extraction_backlog' = Append(extraction_backlog, Len(extraction_backlog))
            /\ mainpc' = mainpc
       ELSE /\ extraction_backlog' = extraction_backlog
            /\ mainpc' = "spawn"
    /\ UNCHANGED <<config, workspace, spawned, joined, inject_queues, extraction_done, workerVars,
                   writerVars, sinkVars, delivered, pushed, emitted, writerHist>>

\* for commit_idx, commit in enumerate(...): extraction_backlog.put(commit_idx)
MainSeed ==
    /\ mainpc = "seed"
    /\ IF Len(extraction_backlog) < nrev
       THEN /\ extraction_backlog' = Append(extraction_backlog, Len(extraction_backlog))
            /\ mainpc' = mainpc
       ELSE /\ extraction_backlog' = extraction_backlog
            /\ mainpc' = "spawn"
    /\ UNCHANGED <<config, workspace, spawned, joined, inject_queues, extraction_done, workerVars,
                   writerVars, sinkVars, delivered, pushed, emitted, writerHist>>

\* mutant: the repository and the branch are looked at only after the
\* extraction processes were started
MainConfigErrorLate ==
    /\ mainpc = "spawn"
    /\ spawned >= 1
    /\ mainpc' = "failed"
    /\ UNCHANGED <<config, workspace, spawned, joined, extraction_backlog, inject_queues,
                   extraction_done, workerVars, writerVars, sinkVars, delivered, pushed,
                   emitted, writerHist>>

\* Repo(path_to_repo) raises (the path is no repository) or the first step of
\* iter_commits(branch) raises (no such branch): the exception leaves main
MainConfigError ==
    /\ mainpc = "seed"
    /\ extraction_backlog = <<>>
    /\ mainpc' = "failed"
    /\ UNCHANGED <<config, workspace, spawned, joined, extraction_backlog, inject_queues,
                   extraction_done, workerVars, writerVars, sinkVars, delivered, pushed,
                   emitted, writerHist>>

\* new_worker.start(), number_of_workers times
MainStartWorker ==
    /\ mainpc = "spawn"
    /\ spawned < number_of_workers
    /\ spawned' = spawned + 1
    /\ wpc' = [wpc EXCEPT ![spawned + 1] = "copy"]
    /\ UNCHANGED <<config, workspace, mainpc, joined, extraction_backlog, inject_queues,
                   extraction_done, commit_idx, todo, writerVars, sinkVars, delivered,
                   pushed, emitted, writerHist>>

\* extraction_done = manager.Value(bool, False); injection_proc.start()
MainStartInjection ==
    /\ mainpc = "spawn"
    /\ spawned = number_of_workers
    /\ ipc' = "setup"
    /\ mainpc' = "join"
    /\ UNCHANGED <<config, workspace, spawned, joined, extraction_backlog, inject_queues,
                   extraction_done, workerVars, itable, qsum, sinkVars, delivered,
                   pushed, emitted, writerHist>>

\* mutant: main does not wait for the extraction process to end
MainJoinWorkerNoWait ==
    /\ mainpc = "join"
    /\ joined < number_of_workers
    /\ joined' = joined + 1
    /\ UNCHANGED <<config, workspace, mainpc, spawned, extraction_backlog, inject_queues,
                   extraction_done, workerVars, writerVars, sinkVars, delivered, pushed, emitted,
                   writerHist>>

\* for ep in extract_procs: ep.join()
MainJoinWorker ==
    /\ mainpc = "join"
    /\ joined < number_of_workers
    /\ wpc[joined + 1] \in {"done", "crashed"}
    /\ joined' = joined + 1
    /\ UNCHANGED <<config, workspace, mainpc, spawned, extraction_backlog, inject_queues,
                   extraction_done, workerVars, writerVars, sinkVars, delivered, pushed, emitted,
                   writerHist>>

\* mutant: main goes on to the join of the injection process without setting
\* the flag
MainSetDoneForgotten ==
    /\ mainpc = "join"
    /\ joined = number_of_workers
    /\ mainpc' = "join_injection"
    /\ UNCHANGED <<config, workspace, spawned, joined, extraction_backlog, inject_queues,
                   extraction_done, workerVars, writerVars, sinkVars, delivered, pushed, emitted,
                   writerHist>>

\* extraction_done.set(True)
MainSetDone ==
    /\ mainpc = "join"
    /\ joined = number_of_workers
    /\ extraction_done' = TRUE
    /\ mainpc' = "join_injection"
    /\ UNCHANGED <<config, workspace, spawned, joined, extraction_backlog, inject_queues,
                   workerVars, writerVars, sinkVars, delivered, pushed, emitted, writerHist>>

\* injection_proc.join(); print('done')
MainJoinInjection ==
    /\ mainpc = "join_injection"
    /\ ipc \in {"done", "crashed"}
    /\ mainpc' = "done"
    /\ UNCHANGED <<config, workspace, spawned, joined, extraction_backlog, inject_queues,
                   extraction_done, workerVars, writerVars, sinkVars, delivered, pushed, emitted,
                   writerHist>>

\* ------------------------------------------------------ extraction_func
\* with tempfile.TemporaryDirectory(dir=ram_disk_dir) as temp_dir:
\*     copy_tree(path_to_repo, temp_dir)
WorkerCopy(w) ==
    /\ wpc[w] = "copy"
    /\ workspace' = [workspace EXCEPT ![TempDir(w)] = workspace[Origin]]
    /\ wpc' = [wpc EXCEPT ![w] = "loop"]
    /\ UNCHANGED <<config, mainVars, extraction_backlog, inject_queues, extraction_done,
                   commit_idx, todo, writerVars, sinkVars, delivered, pushed, emitted, writerHist>>

\* while extraction_backlog.qsize() > 0: when the loop is left the with block
\* removes temp_dir
WorkerCheck(w) ==
    /\ wpc[w] = "loop"
    /\ wpc' = [wpc EXCEPT ![w] = IF Len(extraction_backlog) > 0 THEN "get" ELSE "done"]
    /\ workspace' = IF Len(extraction_backlog) > 0 THEN workspace
                    ELSE [workspace EXCEPT ![TempDir(w)] = NoDir]
    /\ UNCHANGED <<config, mainVars, extraction_backlog, inject_queues, extraction_done,
                   commit_idx, todo, writerVars, sinkVars, delivered, pushed, emitted, writerHist>>

\* mutant: the index is read from the front of the backlog and left there
WorkerGetPeek(w) ==
    /\ wpc[w] = "get"
    /\ extraction_backlog # <<>>
    /\ commit_idx' = [commit_idx EXCEPT ![w] = <<Head(extraction_backlog)>>]
    /\ delivered' = [delivered EXCEPT ![Head(extraction_backlog)] = @ + 1]
    /\ wpc' = [wpc EXCEPT ![w] = "analyze"]
    /\ UNCHANGED <<config, workspace, mainVars, extraction_backlog, inject_queues, extraction_done,
                   todo, writerVars, sinkVars, pushed, emitted, writerHist>>

\* mutant: the extraction processes share one lock around the analysis of a
\* commit: the get waits while another process is analysing
WorkerGetInTurn(w) ==
    /\ wpc[w] = "get"
    /\ extraction_backlog # <<>>
    /\ \A v \in Workers \ {w} : wpc[v] \notin {"analyze", "put"}
    /\ commit_idx' = [commit_idx EXCEPT ![w] = <<Head(extraction_backlog)>>]
    /\ extraction_backlog' = Tail(extraction_backlog)
    /\ delivered' = [delivered EXCEPT ![Head(extraction_backlog)] = @ + 1]
    /\ wpc' = [wpc EXCEPT ![w] = "analyze"]
    /\ UNCHANGED <<config, workspace, mainVars, inject_queues, extraction_done, todo, writerVars,
                   sinkVars, pushed, emitted, writerHist>>

\* commit_idx = extraction_backlog.get(): a blocking get, which waits for an
\* item and never raises queue.Empty
WorkerGet(w) ==
    /\ wpc[w] = "get"
    /\ extraction_backlog # <<>>
    /\ commit_idx' = [commit_idx EXCEPT ![w] = <<Head(extraction_backlog)>>]
    /\ extraction_backlog' = Tail(extraction_backlog)
    /\ delivered' = [delivered EXCEPT ![Head(extraction_backlog)] = @ + 1]
    /\ wpc' = [wpc EXCEPT ![w] = "analyze"]
    /\ UNCHANGED <<config, workspace, mainVars, inject_queues, extraction_done, todo, writerVars,
                   sinkVars, pushed, emitted, writerHist>>

\* the commit is resolved and the private copy reset to it: what the rest of
\* the iteration puts on the queues is fixed from here
WorkerReset(w) ==
    /\ wpc[w] = "analyze"
    /\ workspace' = [workspace EXCEPT ![repo_dir(w)] = reset_repo_to_commit(@, commit_idx[w][1])]
    /\ todo' = [todo EXCEPT ![w] = analyze_commit(commit_idx[w][1], blame_only_for_head,
                                                   file_size_limit, workspace'[repo_dir(w)])]
    /\ wpc' = [wpc EXCEPT ![w] = "put"]
    /\ UNCHANGED <<config, mainVars, extraction_backlog, inject_queues, extraction_done,
                   commit_idx, writerVars, sinkVars, delivered, pushed, emitted, writerHist>>

\* reset_repo_to_commit raises (a git command fails): the exception leaves
\* extraction_func and the process ends
WorkerCrash(w) ==
    /\ wpc[w] = "analyze"
    /\ wpc' = [wpc EXCEPT ![w] = "crashed"]
    /\ workspace' = [workspace EXCEPT ![TempDir(w)] = NoDir]
    /\ UNCHANGED <<config, mainVars, extraction_backlog, inject_queues, extraction_done,
                   commit_idx, todo, writerVars, sinkVars, delivered, pushed, emitted, writerHist>>

\* open(file, 'rb') or a read raises while the next file of the tree is hashed
\* (the file's row for file_commit_mapping is the next put): nothing catches
\* the exception, it leaves extraction_func and the process ends with the
\* rest of the commit's puts not done
WorkerFileError(w) ==
    /\ wpc[w] = "put"
    /\ todo[w] # <<>>
    /\ Head(todo[w]).table = "FILE_COMMIT_MAPPING"
    /\ wpc' = [wpc EXCEPT ![w] = "crashed"]
    /\ workspace' = [workspace EXCEPT ![TempDir(w)] = NoDir]
    /\ UNCHANGED <<config, mainVars, extraction_backlog, inject_queues, extraction_done,
                   commit_idx, todo, writerVars, sinkVars, delivered, pushed, emitted,
                   writerHist>>

\* mutant: the injection queues are created with room for one row, and a put
\* waits while the queue is full
WorkerPutBounded(w) ==
    /\ wpc[w] = "put"
    /\ todo[w] # <<>>
    /\ inject_queues[Head(todo[w]).table] = <<>>
    /\ LET p == Head(todo[w])
       IN  /\ inject_queues' = [inject_queues EXCEPT ![p.table] = Append(@, p.row)]
           /\ pushed' = [pushed EXCEPT ![p.table] = Append(@, p.row)]
           /\ emitted' = [emitted EXCEPT ![commit_idx[w][1]] = Append(@, p)]
    /\ todo' = [todo EXCEPT ![w] = Tail(@)]
    /\ wpc' = [wpc EXCEPT ![w] = IF Len(todo[w]) = 1 THEN "loop" ELSE "put"]
    /\ UNCHANGED <<config, workspace, mainVars, extraction_backlog, extraction_done, commit_idx,
                   writerVars, sinkVars, delivered, writerHist>>

\* mutant: the extraction process opens its own connection to git.hyper and
\* inserts the row itself
WorkerPutDirect(w) ==
    /\ wpc[w] = "put"
    /\ todo[w] # <<>>
    /\ LET p == Head(todo[w])
       IN  /\ hyper' = [hyper EXCEPT ![p.table] = Append(@, p.row)]
           /\ pushed' = [pushed EXCEPT ![p.table] = Append(@, p.row)]
           /\ emitted' = [emitted EXCEPT ![commit_idx[w][1]] = Append(@, p)]
           /\ sink_ops' = sink_ops \cup {[by |-> Extraction(w), op |-> "insert", table |-> p.table]}
    /\ connections' = connections \cup {Extraction(w)}
    /\ todo' = [todo EXCEPT ![w] = Tail(@)]
    /\ wpc' = [wpc EXCEPT ![w] = IF Len(todo[w]) = 1 THEN "loop" ELSE "put"]
    /\ UNCHANGED <<config, workspace, mainVars, extraction_backlog, inject_queues, extraction_done,
                   commit_idx, writerVars, tables, delivered, writerHist>>

\* one injection_queue.put(...); after the last one, back to the loop condition
WorkerPut(w) ==
    /\ wpc[w] = "put"
    /\ todo[w] # <<>>
    /\ LET p == Head(todo[w])
       IN  /\ inject_queues' = [inject_queues EXCEPT ![p.table] = Append(@, p.row)]
           /\ pushed' = [pushed EXCEPT ![p.table] = Append(@, p.row)]
           /\ emitted' = [emitted EXCEPT ![commit_idx[w][1]] = Append(@, p)]
    /\ todo' = [todo EXCEPT ![w] = Tail(@)]
    /\ wpc' = [wpc EXCEPT ![w] = IF Len(todo[w]) = 1 THEN "loop" ELSE "put"]
    /\ UNCHANGED <<config, workspace, mainVars, extraction_backlog, extraction_done, commit_idx,
                   writerVars, sinkVars, delivered, writerHist>>

\* ------------------------------------------------------- injection_func
NextTable == IF itable < Len(TableOrder) THEN itable + 1 ELSE 1

\* mutant: only the commits table is created at startup
WriterSetupFirstTableOnly ==
    /\ ipc = "setup"
    /\ connections' = connections \cup {Injection}
    /\ tables' = tables \cup {"COMMITS"}
    /\ sink_ops' = sink_ops \cup {[by |-> Injection, op |-> "create", table |-> "COMMITS"]}
    /\ ipc' = "sweep"
    /\ itable' = 1
    /\ UNCHANGED <<config, workspace, mainVars, extraction_backlog, inject_queues, extraction_done,
                   workerVars, qsum, hyper, delivered, pushed, emitted, writerHist>>

\* HyperProcess, Connection(CREATE_AND_REPLACE), set_up_database
WriterSetup ==
    /\ ipc = "setup"
    /\ connections' = connections \cup {Injection}
    /\ tables' = tables \cup TableNames
    /\ sink_ops' = sink_ops \cup {[by |-> Injection, op |-> "create", table |-> t] : t \in TableNames}
    /\ ipc' = "sweep"
    /\ itable' = 1
    /\ UNCHANGED <<config, workspace, mainVars, extraction_backlog, inject_queues, extraction_done,
                   workerVars, qsum, hyper, delivered, pushed, emitted, writerHist>>

\* mutant: the get is made without looking at the size of the queue
WriterCheckBlind ==
    /\ ipc = "sweep"
    /\ ipc' = "get"
    /\ UNCHANGED <<itable, qsum>>
    /\ UNCHANGED <<config, workspace, mainVars, extraction_backlog, inject_queues, extraction_done,
                   workerVars, sinkVars, delivered, pushed, emitted, writerHist>>

\* if iq.qsize() > 0:
WriterCheck ==
    /\ ipc = "sweep"
    /\ IF Len(inject_queues[TableOrder[itable]]) > 0
       THEN /\ ipc' = "get"
            /\ UNCHANGED <<itable, qsum>>
       ELSE /\ itable' = NextTable
            /\ ipc' = IF itable = Len(TableOrder) THEN "sum" ELSE "sweep"
            /\ qsum' = 0
    /\ UNCHANGED <<config, workspace, mainVars, extraction_backlog, inject_queues, extraction_done,
                   workerVars, sinkVars, delivered, pushed, emitted, writerHist>>

\* mutant: the newest row of the queue is taken instead of the oldest
WriterInsertNewest ==
    /\ ipc = "get"
    /\ inject_queues[TableOrder[itable]] # <<>>
    /\ LET t == TableOrder[itable]
           q == inject_queues[t]
       IN  /\ inject_queues' = [inject_queues EXCEPT ![t] = SubSeq(q, 1, Len(q) - 1)]
           /\ hyper' = [hyper EXCEPT ![t] = Append(@, q[Len(q)])]
           /\ sink_ops' = sink_ops \cup {[by |-> Injection, op |-> "insert", table |-> t]}
    /\ itable' = NextTable
    /\ ipc' = IF itable = Len(TableOrder) THEN "sum" ELSE "sweep"
    /\ qsum' = 0
    /\ UNCHANGED <<config, workspace, mainVars, extraction_backlog, extraction_done, workerVars,
                   tables, connections, delivered, pushed, emitted, writerHist>>

\* data = iq.get(); inserter.add_row(data); inserter.execute()
WriterInsert ==
    /\ ipc = "get"
    /\ inject_queues[TableOrder[itable]] # <<>>
    /\ LET t == TableOrder[itable]
       IN  /\ inject_queues' = [inject_queues EXCEPT ![t] = Tail(@)]
           /\ hyper' = [hyper EXCEPT ![t] = Append(@, Head(inject_queues[t]))]
           /\ sink_ops' = sink_ops \cup {[by |-> Injection, op |-> "insert", table |-> t]}
    /\ itable' = NextTable
    /\ ipc' = IF itable = Len(TableOrder) THEN "sum" ELSE "sweep"
    /\ qsum' = 0
    /\ UNCHANGED <<config, workspace, mainVars, extraction_backlog, extraction_done, workerVars,
                   tables, connections, delivered, pushed, emitted, writerHist>>

\* data = iq.get(); the Inserter raises: the exception leaves injection_func,
\* the connection is closed by its with block and the process ends
WriterCrash ==
    /\ ipc = "get"
    /\ inject_queues[TableOrder[itable]] # <<>>
    /\ inject_queues' = [inject_queues EXCEPT ![TableOrder[itable]] = Tail(@)]
    /\ connections' = connections \ {Injection}
    /\ ipc' = "crashed"
    /\ UNCHANGED <<config, workspace, mainVars, extraction_backlog, extraction_done, workerVars,
                   itable, qsum, hyper, tables, sink_ops, delivered, pushed, emitted, writerHist>>

\* sum([inject_queue.qsize() for inject_queue in inject_queues.values()]) == 0,
\* one qsize() call at a time
WriterSum ==
    /\ ipc = "sum"
    /\ LET s == qsum + Len(inject_queues[TableOrder[itable]])
       IN  IF itable < Len(TableOrder)
           THEN /\ qsum' = s
                /\ itable' = itable + 1
                /\ ipc' = ipc
                /\ UNCHANGED empty_after_done
           ELSE /\ qsum' = 0
                /\ itable' = 1
                /\ ipc' = IF s = 0 THEN "flag" ELSE "sweep"
                /\ empty_after_done' = (empty_after_done \/ (observed_done /\ s = 0))
    /\ UNCHANGED <<config, workspace, mainVars, extraction_backlog, inject_queues, extraction_done,
                   workerVars, sinkVars, delivered, pushed, emitted, observed_done>>

\* if injection_queues_all_empty and extraction_done.get(): return
WriterFlag ==
    /\ ipc = "flag"
    /\ observed_done' = (observed_done \/ extraction_done)
    /\ IF extraction_done
       THEN /\ ipc' = "done"
            /\ connections' = connections \ {Injection}
       ELSE /\ ipc' = "sweep"
            /\ UNCHANGED connections
    /\ UNCHANGED <<config, workspace, mainVars, extraction_backlog, inject_queues, extraction_done,
                   workerVars, itable, qsum, hyper, tables, sink_ops, delivered, pushed, emitted,
                   empty_after_done>>

\* the exit status of the script, <<>> while main runs: main returns and the
\* interpreter ends with 0, or an exception leaves main and it ends with 1
ExitStatus ==
    IF mainpc = "done" THEN <<0>>
    ELSE IF mainpc = "failed" THEN <<1>>
    ELSE <<>>

\* ----------------------------------------------------------------- Next
MainStep ==
    \/ MainSeed
    \/ MainConfigError
    \/ MainStartWorker
    \/ MainStartInjection
    \/ MainJoinWorker
    \/ MainSetDone
    \/ MainJoinInjection

WorkerStep(w) ==
    \/ WorkerCopy(w)
    \/ WorkerCheck(w)
    \/ WorkerGet(w)
    \/ WorkerReset(w)
    \/ WorkerCrash(w)
    \/ WorkerFileError(w)
    \/ WorkerPut(w)

WriterStep ==
    \/ WriterSetup
    \/ WriterCheck
    \/ WriterInsert
    \/ WriterCrash
    \/ WriterSum
    \/ WriterFlag

Next ==
    \/ MainStep
    \/ \E w \in Workers : WorkerStep(w)
    \/ WriterStep

Spec == Init /\ [][Next]_vars

\* the operating system schedules every process that can run: main and the
\* injection process keep taking steps
FairSpec == InitFair /\ [][Next]_vars /\ WF_vars(MainStep) /\ WF_vars(WriterStep)

\* as FairSpec, and every extraction process but the first keeps taking steps:
\* the first one may stop for ever at any point
StallSpec ==
    /\ InitStall /\ [][Next]_vars
    /\ WF_vars(MainStep) /\ WF_vars(WriterStep)
    /\ \A w \in Workers \ {1} : WF_vars(WorkerStep(w))

SpecP5 == InitP5 /\ [][Next]_vars

SpecBlame == InitBlame /\ [][Next]_vars

SpecWorkers == InitWorkers /\ [][Next]_vars

SpecWorkspace == InitWorkspace /\ [][Next]_vars

\* ------------------------------------------------------------ vocabulary
Count(seq, x) == Cardinality({k \in 1..Len(seq) : seq[k] = x})

\* main has returned from injection_proc.join()
RunCompleted == mainpc = "done"
\* no process ended with an exception
NoCrash == ipc # "crashed" /\ \A w \in Workers : wpc[w] # "crashed"
AllWorkersExited == \A w \in 1..number_of_workers : wpc[w] \in {"done", "crashed"}
AllChannelsEmpty == \A t \in TableNames : inject_queues[t] = <<>>
Revisions == 0..(nrev - 1)

\* the rows of table t a run puts on its queue when every commit is analysed
ExpectedRows(t) ==
    UNION {LET plan == analyze_commit(i, blame_only_for_head, file_size_limit, Tree(i, {}))
           IN  {plan[k].row : k \in {j \in 1..Len(plan) : plan[j].table = t}} : i \in Revisions}

\* ------------------------------------------------------------------- C1
\* C1 (P1, coverage): when the run has completed without a process failing,
\* the commits table holds exactly one row per revision of the branch: nrev
\* rows, none twice, none missing.
C1_Coverage ==
    (RunCompleted /\ NoCrash) =>
        /\ Len(hyper["COMMITS"]) = nrev
        /\ \A i \in Revisions : Count(hyper["COMMITS"], insert_commit_data(i)[1].row) = 1

\* ------------------------------------------------------------------- C2
\* C2: the injection process returns only after a full pass over the four
\* queues that found them all empty and that was made after it had read the
\* completion flag as set.
C2_EmptySweepAfterFlag == (ipc = "done") => empty_after_done

\* ------------------------------------------------------------------- C3
\* C3: once the injection process has returned normally, the four queues are
\* empty and every row ever put on a queue is in that queue's table exactly as
\* often as it was put.
C3_NoRowLost ==
    (ipc = "done") =>
        /\ AllChannelsEmpty
        /\ \A t \in TableNames : \A r \in Range(pushed[t]) \cup Range(hyper[t]) :
               Count(hyper[t], r) = Count(pushed[t], r)

\* ------------------------------------------------------------------- C4
\* C4: a worker at the take from the backlog is never blocked: it can always
\* take its next step, also when the backlog is empty by then.
C4_TakeNeverBlocks ==
    \A w \in Workers : (wpc[w] = "get") => ENABLED WorkerStep(w)

\* ------------------------------------------------------------------- C5
\* C5 (P6, termination): once all workers have exited and all queues are empty,
\* the injection process eventually ends and main's join on it returns.
C5_WriterTerminates ==
    (mainpc # "seed" /\ spawned = number_of_workers /\ AllWorkersExited /\ AllChannelsEmpty)
        ~> (ipc \in {"done", "crashed"} /\ RunCompleted)

\* reached: all workers gone, the queues drained, the writer returned, main done
C5_Witness ==
    /\ AllWorkersExited /\ AllChannelsEmpty /\ RunCompleted /\ ipc = "done"
    /\ Len(hyper["COMMITS"]) = nrev /\ nrev = MaxRevisions

\* ------------------------------------------------------------------- C6
\* C6: an index put on the backlog is returned by at most one take, and after
\* it was taken it is not on the backlog again, also when the worker that took
\* it failed.
C6_DeliveredOnce ==
    /\ \A i \in Revisions : delivered[i] <= 1
    /\ \A i \in Revisions : delivered[i] = 1 => i \notin Range(extraction_backlog)
    /\ \A v, w \in Workers :
          (v # w /\ wpc[v] \in {"analyze", "put"} /\ wpc[w] \in {"analyze", "put"})
              => commit_idx[v] # commit_idx[w]

\* reached: a worker failed on its index while another worker took another
\* index and the backlog is empty
C6_Witness ==
    \E v, w \in Workers :
        /\ wpc[v] = "crashed" /\ wpc[w] = "put"
        /\ commit_idx[v] # commit_idx[w]
        /\ extraction_backlog = <<>>

\* ------------------------------------------------------------------- C7
\* C7 (P2, changed-files consistency): when the run has completed without a
\* process failing, for every row of the commits table the changed_files rows
\* with that commit's sha name exactly the files of the commit's list, each once.
C7_ChangedFilesConsistent ==
    (RunCompleted /\ NoCrash) =>
        \A c \in Range(hyper["COMMITS"]) :
            /\ {r[2] : r \in {x \in Range(hyper["CHANGED_FILES"]) : x[1] = c[1]}} = Range(c[2])
            /\ \A f \in Range(c[2]) : Count(hyper["CHANGED_FILES"], <<c[1], f>>) = 1

\* ------------------------------------------------------------------- C8
\* C8 (P5, worker-count independence): a run with 1 worker and a run with 4
\* workers on the same branch end with the same set of commits rows and the
\* same set of changed_files rows. A run in which the injection process drains
\* every queue before the flag is set ends with the rows the branch determines
\* (ExpectedRows), with either worker count; so the two runs agree under every
\* interleaving exactly when every completed run ends with those rows.
C8_WorkerCountIndependent ==
    (RunCompleted /\ NoCrash /\ number_of_workers \in ComparedWorkerCounts) =>
        /\ Range(hyper["COMMITS"]) = ExpectedRows("COMMITS")
        /\ Range(hyper["CHANGED_FILES"]) = ExpectedRows("CHANGED_FILES")

\* ------------------------------------------------------------------- C9
\* C9: a worker that is about to put a row on an injection queue can always do
\* so, whatever the length of the queue and the state of the injection process.
C9_PushNeverBlocks ==
    \A w \in Workers : (wpc[w] = "put") => ENABLED WorkerPut(w)

\* reached: a worker is about to put a row on a queue that already holds rows
\* while the injection process has ended
C9_Witness ==
    \E w \in Workers :
        /\ wpc[w] = "put"
        /\ Len(inject_queues[Head(todo[w]).table]) >= 1
        /\ ipc = "crashed"

\* ------------------------------------------------------------------ C10
\* C10 (single writer): at most one connection to git.hyper is open, it is the
\* injection process's, and every table creation and every insert was done by
\* the injection process.
C10_SingleWriter ==
    /\ connections \subseteq {Injection}
    /\ Cardinality(connections) <= 1
    /\ \A o \in sink_ops : o.by = Injection
    /\ (\E t \in TableNames : hyper[t] # <<>>) => [by |-> Injection, op |-> "create", table |-> "COMMITS"] \in sink_ops

\* reached: the injection process holds the connection and has inserted rows
\* while a worker is still producing
C10_Witness ==
    /\ connections = {Injection}
    /\ hyper["COMMITS"] # <<>>
    /\ \E w \in Workers : wpc[w] = "put"

\* ------------------------------------------------------------------ C11
\* C11: when an insert into git.hyper has failed and ended the injection
\* process, the script does not end with exit status 0.
C11_AppendFailureFatal == (ipc = "crashed") => ExitStatus # <<0>>

\* ------------------------------------------------------------------ C15
\* C15: when main fails on the repository path or the branch, no extraction
\* process and no injection process was started, no connection to git.hyper
\* was opened and nothing was put on a queue.
C15_ConfigErrorBeforeSpawn ==
    (mainpc = "failed") =>
        /\ spawned = 0
        /\ \A w \in Workers : wpc[w] = "unstarted"
        /\ ipc = "unstarted"
        /\ connections = {} /\ sink_ops = {} /\ tables = {}
        /\ \A t \in TableNames : pushed[t] = <<>>

\* reached: main has failed on its configuration
C15_Witness == mainpc = "failed" /\ ExitStatus = <<1>> /\ extraction_backlog = <<>>

\* ------------------------------------------------------------------ C12
\* an extraction process ended by an I/O error on a file of its commit
FileErrorEnded(w) == wpc[w] = "crashed" /\ todo[w] # <<>>

\* C12: an I/O error while a file is hashed does not end the extraction
\* process: the file is skipped and the process goes on with the commit.
C12_FileErrorScoped == \A w \in Workers : ~FileErrorEnded(w)

\* ------------------------------------------- what was done for a commit
\* the iteration of extraction_func for index i has run to its end
Processed(i) ==
    /\ delivered[i] >= 1
    /\ \A w \in Workers : commit_idx[w] = <<i>> => wpc[w] \in {"loop", "get", "done"}

\* a file_commit_mapping row was put for file f while index i was analysed
Snapshotted(i, f) ==
    \E k \in 1..Len(emitted[i]) :
        emitted[i][k].table = "FILE_COMMIT_MAPPING" /\ emitted[i][k].row[3] = f

\* a blame row was put for file f while index i was analysed
Blamed(i, f) ==
    \E k \in 1..Len(emitted[i]) :
        emitted[i][k].table = "BLAME" /\ emitted[i][k].row[1][2] = f

\* file f is in the working tree at index i
Present(i, f) == \E j \in i..(nrev - 1) : Touches(j, f)
Files == Range(FileList)

\* a limit is configured and the file is smaller than it
UnderLimit(i, f) == file_size_limit # <<>> /\ FileSize(i, f) < file_size_limit[1]
\* a limit is configured and the file is bigger than it
OverLimit(i, f) == file_size_limit # <<>> /\ FileSize(i, f) > file_size_limit[1]

\* ------------------------------------------------------------------ C13
\* C13: with --file_size_limit None no file is left out because of its size:
\* for every analysed commit that the blame step covers, every file of the
\* tree that is changed by the commit (every file, for HEAD) has a blame row.
C13_NoLimitBlamesAll ==
    (file_size_limit = <<>>) =>
        \A i \in Revisions : (Processed(i) /\ (i = 0 \/ ~blame_only_for_head)) =>
            \A f \in Files : (Present(i, f) /\ (i = 0 \/ Touches(i, f))) => Blamed(i, f)

\* ------------------------------------------------------------------ C14
\* C14: for a file bigger than the configured limit neither a
\* file_commit_mapping row nor a blame row is put.
C14_OverLimitSkippedEntirely ==
    \A i \in Revisions : \A f \in Files :
        (Present(i, f) /\ OverLimit(i, f)) => (~Snapshotted(i, f) /\ ~Blamed(i, f))

\* ------------------------------------------------------------------ C18
\* C18 as stated: for an analysed commit the files the blame step handles are
\* the changed files when --blame_only_for_head is set and the index is not 0,
\* and every file of the tree otherwise; each of them under the limit has a
\* file_commit_mapping row and is blamed, and no other file has either.
C18_CandidatesAsStated ==
    \A i \in Revisions : Processed(i) =>
        LET candidates == IF blame_only_for_head /\ i # 0
                          THEN Range(ChangedFiles(i))
                          ELSE {f \in Files : Present(i, f)}
        IN  \A f \in Files :
                /\ (f \in candidates /\ UnderLimit(i, f)) => (Snapshotted(i, f) /\ Blamed(i, f))
                /\ (f \notin candidates) => (~Snapshotted(i, f) /\ ~Blamed(i, f))

\* C18 amended: for an analysed commit, when --blame_only_for_head is set and
\* the index is not 0 no file is handled (no file_commit_mapping row, no blame
\* row); when the index is 0 or the flag is unset only files of the tree are
\* handled, each of them under the limit has a file_commit_mapping row, and
\* those of them that the commit changes (all of them, for index 0) are blamed.
C18_Candidates ==
    \A i \in Revisions : Processed(i) =>
        IF blame_only_for_head /\ i # 0
        THEN \A f \in Files : ~Snapshotted(i, f) /\ ~Blamed(i, f)
        ELSE \A f \in Files :
                /\ (Snapshotted(i, f) \/ Blamed(i, f)) => Present(i, f)
                /\ (Present(i, f) /\ UnderLimit(i, f)) => Snapshotted(i, f)
                /\ (Present(i, f) /\ UnderLimit(i, f) /\ (i = 0 \/ Touches(i, f))) => Blamed(i, f)

\* reached: with the flag set, a commit other than HEAD that changes a file
\* under the limit was analysed to its end, and nothing was put for the file
C18_Witness ==
    /\ blame_only_for_head
    /\ \E i \in Revisions : i # 0 /\ Processed(i) /\ ChangedFiles(i) # <<>> /\
          LET f == ChangedFiles(i)[1]
          IN  UnderLimit(i, f) /\ ~Snapshotted(i, f) /\ ~Blamed(i, f)

C16_FlagAfterWorkers ==
    /\ extraction_done => (joined = number_of_workers /\ AllWorkersExited)
    /\ observed_done => extraction_done
    /\ (ipc = "done") =>
          /\ observed_done
          /\ \A w \in Workers :
                wpc[w] \in {"unstarted", "done", "crashed"} /\ ~ENABLED WorkerPut(w)

\* reached: the injection process has returned after two extraction processes
\* ran, one of which analysed a commit and put its rows
C16_Witness ==
    /\ ipc = "done"
    /\ number_of_workers = 2
    /\ \E i \in Revisions : delivered[i] = 1 /\ Len(emitted[i]) >= 2

\* ------------------------------------------------------------------ C17
\* C17: when the first extraction process is started the backlog holds the
\* indices 0..N-1 in order, each once, and no process runs while it is filled;
\* from then on every index was either taken once or is on the backlog once,
\* and no step makes the backlog longer.
C17_State ==
    /\ (mainpc = "seed") => (\A w \in Workers : wpc[w] = "unstarted") /\ ipc = "unstarted"
    /\ (mainpc = "spawn" /\ spawned = 0) => extraction_backlog = [k \in 1..nrev |-> k - 1]
    /\ (mainpc \notin {"seed", "failed"}) =>
          /\ Range(extraction_backlog) \subseteq Revisions
          /\ \A i \in Revisions : delivered[i] + Count(extraction_backlog, i) = 1

C17_BacklogSeededOnce ==
    /\ []C17_State
    /\ [][(mainpc # "seed") => Len(extraction_backlog') <= Len(extraction_backlog)]_vars

\* reached: on the longest branch one index was taken, another is still on the
\* backlog, and the extraction process that took the first has ended
C17_Witness ==
    /\ nrev = MaxRevisions
    /\ \E i, j \in Revisions : delivered[i] = 1 /\ Count(extraction_backlog, j) = 1
    /\ \E w \in Workers : wpc[w] = "crashed"

\* ------------------------------------------------------------------ C20
\* C20: once main has started its processes, the number of extraction
\* processes is the value of --number_of_workers when it was given, and
\* otherwise the floor of cpu_count() / 3 but at least 1; exactly that many
\* process slots were started, and the injection process was started.
C20_WorkerCount ==
    (mainpc \in {"join", "join_injection", "done"}) =>
        /\ workers_arg # <<>> => spawned = workers_arg[1]
        /\ workers_arg = <<>> =>
              /\ spawned >= 1
              /\ cpus < 3 => spawned = 1
              /\ cpus >= 3 => (3 * spawned <= cpus /\ cpus < 3 * (spawned + 1))
        /\ {w \in Workers : wpc[w] # "unstarted"} = 1..spawned
        /\ ipc # "unstarted"

\* reached: --number_of_workers was not given on a machine with fewer than 3
\* cpus, and main started one extraction process and the injection process
C20_Witness ==
    /\ workers_arg = <<>> /\ cpus < 3
    /\ mainpc = "join" /\ spawned = 1 /\ wpc[1] # "unstarted" /\ ipc # "unstarted"

\* ------------------------------------------------------------------ C21
\* the rows put for table t while index i was analysed, in the order of the puts
RowsOf(i, t) ==
    LET puts == SelectSeq(emitted[i], LAMBDA p : p.table = t)
    IN  [k \in 1..Len(puts) |-> puts[k].row]

\* C21: for an index analysed to its end exactly one commits row was put, and
\* one changed_files row for each file the commit changes and for no other
\* file; all of them carry the commit's sha, and at no moment were two commits
\* rows put for one index.
C21_OneCommitRow ==
    \A i \in Revisions :
        /\ Len(RowsOf(i, "COMMITS")) <= 1
        /\ \A r \in Range(RowsOf(i, "COMMITS")) \cup Range(RowsOf(i, "CHANGED_FILES")) : r[1] = Sha(i)
        /\ Processed(i) =>
              /\ Len(RowsOf(i, "COMMITS")) = 1
              /\ Len(RowsOf(i, "CHANGED_FILES")) = Len(ChangedFiles(i))
              /\ \A f \in Files :
                    Count(RowsOf(i, "CHANGED_FILES"), <<Sha(i), f>>) = (IF Touches(i, f) THEN 1 ELSE 0)

\* reached: on the longest branch the oldest commit, which changes a file, was
\* analysed to its end by a worker that analysed another commit before
C21_Witness ==
    /\ nrev = MaxRevisions
    /\ Processed(nrev - 1) /\ ChangedFiles(nrev - 1) # <<>>
    /\ \E j \in Revisions : j # nrev - 1 /\ Processed(j)

\* ------------------------------------------------------------------ C30
\* C30: for every commit, the commits row the extraction processes put equals
\* the row basic-git-to-hyper.py inserts for it (identifier, changed-file list
\* and message), and once the commit is analysed to its end the changed_files
\* rows put are the set the basic script inserts.
C30_SameAsBasic ==
    \A i \in Revisions :
        /\ \A r \in Range(RowsOf(i, "COMMITS")) : r = basic_insert_commit_data(i)
        /\ Processed(i) => Range(RowsOf(i, "CHANGED_FILES")) = basic_insert_changed_files_data(i)

\* ------------------------------------------------------------------ C22
\* the tables exist before a row is in git.hyper, and all four or none exist
C22_State ==
    /\ tables \in {{}, TableNames}
    /\ (ipc \in {"unstarted", "setup"}) => tables = {}
    /\ \A t \in TableNames :
          (hyper[t] # <<>> \/ [by |-> Injection, op |-> "insert", table |-> t] \in sink_ops)
              => (t \in tables /\ [by |-> Injection, op |-> "create", table |-> t] \in sink_ops)

\* the set of tables changes only at the startup of the injection process,
\* from none to all four, with git.hyper still empty
C22_Step ==
    (tables' # tables) =>
        /\ ipc = "setup" /\ tables = {} /\ tables' = TableNames
        /\ \A t \in TableNames : hyper[t] = <<>> /\ hyper'[t] = <<>>

\* C22: the four tables are created once, by the injection process at its
\* startup and before any row is inserted: no insert into a table precedes its
\* creation, and no table is created after the first insert.
C22_TablesDeclaredOnce == []C22_State /\ [][C22_Step]_vars

\* reached: every one of the four tables holds a row
C22_Witness == tables = TableNames /\ \A t \in TableNames : hyper[t] # <<>>

\* ------------------------------------------------------------------ C28
IsPrefix(a, b) == Len(a) <= Len(b) /\ a = SubSeq(b, 1, Len(a))
IsSuffix(a, b) == Len(a) <= Len(b) /\ a = SubSeq(b, Len(b) - Len(a) + 1, Len(b))

\* C28 as stated: at every moment, for each table, the rows in git.hyper
\* followed by the rows on the table's queue are the rows put on the queue so
\* far, in order.
C28_ConservationAsStated ==
    \A t \in TableNames : hyper[t] \o inject_queues[t] = pushed[t]

\* C28 amended: the same as long as no insert has failed; after an insert has
\* failed and ended the injection process, the rows in git.hyper are still the
\* first rows put on the table's queue, in order, and the rows on the queue are
\* the last ones put.
C28_Conservation ==
    /\ (ipc # "crashed") => \A t \in TableNames : hyper[t] \o inject_queues[t] = pushed[t]
    /\ \A t \in TableNames : IsPrefix(hyper[t], pushed[t]) /\ IsSuffix(inject_queues[t], pushed[t])

\* reached: an insert has failed with rows of the table in git.hyper and
\* further rows on its queue: the failed row is in neither
C28_Witness ==
    /\ ipc = "crashed"
    /\ \E t \in TableNames :
          /\ hyper[t] # <<>> /\ inject_queues[t] # <<>>
          /\ Len(hyper[t]) + Len(inject_queues[t]) < Len(pushed[t])

\* ------------------------------------------------------------------ C29
\* C29: when the injection process has seen a queue's size as positive, the
\* get that follows finds a row, whatever the extraction processes do in
\* between.
C29_WriterNeverBlocks ==
    (ipc = "get") => (inject_queues[TableOrder[itable]] # <<>> /\ ENABLED WriterInsert)

\* reached: the injection process is about to get from a queue on which a
\* worker is about to put its next row
C29_Witness ==
    /\ ipc = "get"
    /\ \E w \in Workers : wpc[w] = "put" /\ Head(todo[w]).table = TableOrder[itable]

\* ------------------------------------------------------------------ C27
\* the rows of the blame table with file_hash h, and the sum of their counts
BlameRows(h) == SelectSeq(hyper["BLAME"], LAMBDA r : r[1] = h)
RECURSIVE SumCounts(_)
SumCounts(rows) == IF rows = <<>> THEN 0 ELSE Head(rows)[3] + SumCounts(Tail(rows))

\* the number of lines of the content with hash h: the content file h[2] has
\* at commit h[3]
LineCount(h) == Cardinality(Contributors(h[3], h[2]))

\* C27 (P4, blame aggregation): when the run has completed without a process
\* failing and every row put is in git.hyper, for every file_hash of the blame
\* table there is one row per author of the content and the counts of its rows
\* sum to the number of lines of the content.
C27_BlameAggregation ==
    (RunCompleted /\ NoCrash /\ hyper = pushed) =>
        \A h \in {r[1] : r \in Range(hyper["BLAME"])} :
            /\ \A a \in Range(AuthorList) :
                  Cardinality({k \in 1..Len(BlameRows(h)) : BlameRows(h)[k][2] = a})
                      = (IF a \in AuthorsPerLine(h[3], h[2]) THEN 1 ELSE 0)
            /\ SumCounts(BlameRows(h)) = LineCount(h)

\* ------------------------------------------------------------------ C25
\* C25: the step in which an extraction process resets its working tree to a
\* commit leaves the working tree of path_to_repo and the temp_dir of every
\* other extraction process as they were, and no step at all changes the
\* working tree of path_to_repo.
C25_ResetIsPrivate ==
    /\ [][\A w \in Workers :
            (wpc[w] = "analyze" /\ wpc'[w] = "put") =>
                /\ workspace'[TempDir(w)] = Tree(commit_idx[w][1], {})
                /\ \A d \in Dirs \ {TempDir(w)} : workspace'[d] = workspace[d]]_vars
    /\ [][workspace'[Origin] = workspace[Origin]]_vars

\* reached: two extraction processes have their copies at different commits
\* while path_to_repo still holds its untracked file
C25_Witness ==
    /\ workspace[Origin].untracked # {}
    /\ \E v, w \in Workers :
          /\ wpc[v] = "put" /\ wpc[w] = "put"
          /\ workspace[TempDir(v)].made /\ workspace[TempDir(w)].made
          /\ workspace[TempDir(v)].head # workspace[TempDir(w)].head

\* ------------------------------------------------------------------ C26
\* C26: the rows put for an index are those its commit and the command line
\* determine: at every moment the puts made for index i are the first puts of
\* the sequence analyze_commit gives for a clean checkout of commit i, and all
\* of them once i is analysed to its end, whichever extraction process took i,
\* whatever it analysed before and whatever untracked files path_to_repo held.
C26_RowsDetermined ==
    \A i \in Revisions :
        LET plan == analyze_commit(i, blame_only_for_head, file_size_limit, Tree(i, {}))
        IN  /\ Len(emitted[i]) <= Len(plan)
            /\ \A k \in 1..Len(emitted[i]) : emitted[i][k] = plan[k]
            /\ Processed(i) => Len(emitted[i]) = Len(plan)

\* reached: with an untracked file in path_to_repo, one extraction process
\* analysed two commits to their end, the older one after the newer
C26_Witness ==
    /\ workspace[Origin].untracked # {}
    /\ number_of_workers = 1 /\ ~blame_only_for_head
    /\ \E i, j \in Revisions : i < j /\ Processed(i) /\ Processed(j) /\ commit_idx[1] = <<j>>

\* ------------------------------------------------------------------ C23
\* index i was analysed to its end and every row put for it is in git.hyper
Done(i) ==
    /\ Processed(i)
    /\ \A t \in TableNames : \A r \in Range(RowsOf(i, t)) :
          Count(hyper[t], r) >= Count(RowsOf(i, t), r)

\* the first extraction process is in the analysis of a commit
Stalled == wpc[1] \in {"analyze", "put"}

\* C23: when the first extraction process stays for ever in the analysis of
\* one commit, and no other process fails, then from some moment on every
\* other index of the branch is analysed to its end with its rows in git.hyper.
C23_StallIsLocal ==
    (<>[]Stalled) =>
        <>[](\/ ipc = "crashed"
             \/ \E w \in Workers \ {1} : wpc[w] = "crashed"
             \/ \A i \in Revisions : commit_idx[1] = <<i>> \/ Done(i))

\* reached: the first extraction process is in the analysis of a commit while
\* another index was analysed by another process and its rows are in git.hyper
C23_Witness ==
    /\ Stalled /\ nrev >= 2
    /\ \A i \in Revisions : commit_idx[1] = <<i>> \/ (Done(i) /\ \E w \in Workers \ {1} : commit_idx[w] = <<i>>)

\* ------------------------------------------------------------------ C24
\* C24: when main has returned after an extraction process ended with an
\* error, the join on that process has returned, extraction_done is set, the
\* injection process, unless an insert failed, has emptied every injection
\* queue and returned, and the script ends with exit status 0.
C24_WorkerErrorLikeExit ==
    (RunCompleted /\ \E w \in Workers : wpc[w] = "crashed") =>
        /\ joined = number_of_workers /\ extraction_done
        /\ ExitStatus = <<0>>
        /\ (ipc # "crashed") => (ipc = "done" /\ AllChannelsEmpty)

====
